---- MODULE Spec2Model ----
(***************************************************************************)
(* A model of cudf/_libxx/copying.pyx: the Python-level entry points of    *)
(* the copying primitives (copy_range, gather, scatter, split,             *)
(* copy_if_else, boolean_mask_scatter) and the libcudf kernels they call.  *)
(*                                                                         *)
(* A column is a sequence of elements.  An element is <<>> when it is null *)
(* and <<v>> when it is valid with value v, so that value and validity     *)
(* travel together.  Row k of the source (0-based) is element k + 1 of the *)
(* sequence.  A Python-level result is a record with a "kind" field:       *)
(* None, a reference to an argument object, a new Column or Table, a list  *)
(* of views, or a raised exception.                                        *)
(*                                                                         *)
(* Every operation is a pure operator from its arguments to the record     *)
(* [ret, heap, launched]: the value returned, the storage of the argument  *)
(* objects after the call, and the libcudf entry points it invoked.  Each  *)
(* specification draws the arguments in Init and applies one operation.    *)
(***************************************************************************)
EXTENDS Integers, Sequences, FiniteSets, TLC

VARIABLES
    pc,        \* "ready" before the call, the operation's name after it
    args,      \* the arguments of the call, as passed
    heap,      \* the storage of the argument objects (mutated only in place)
    ret,       \* what the call returned or raised
    launched   \* libcudf entry points invoked by the call, in order

vars == <<pc, args, heap, ret, launched>>

(* ---------------------------------------------------------------- bounds *)
MaxRows == 3        \* rows of a target / source column
MaxInputRows == 1   \* rows of the input column of copy_range
MaxTableRows == 2   \* rows of a table
MaxMapLen == 2      \* entries of a gather / scatter map
MaxSplits == 2      \* split points of a split
MaxViewRows == 2    \* rows of a column that views are taken of
MaxSlices == 1      \* begin/end pairs of a slice

Values == {1, 2}
Null == <<>>
Elem == {Null} \cup {<<v>> : v \in Values}

Columns(n) == [1..n -> Elem]
ColumnsUpTo(n) == UNION {Columns(k) : k \in 0..n}

(* ------------------------------------------------------- Python results *)
None == [kind |-> "None"]
NotCalled == [kind |-> "pending"]
Ref(name) == [kind |-> "ref", obj |-> name]
NewColumn(data) == [kind |-> "Column", data |-> data]
Raise(exc) == [kind |-> "raise", exc |-> exc]

Outcome(r, h, l) == [ret |-> r, heap |-> h, launched |-> l]

abs(x) == IF x < 0 THEN -x ELSE x

Called(name) == pc = name

(* ------------------------------------------------------ error utilities *)
\* CUDF_EXPECTS(cond, reason): continue when cond holds, otherwise throw
\* cudf::logic_error out of the libcudf entry point that was called.
CUDF_EXPECTS(cond, h, l, continued) ==
    IF cond THEN continued ELSE Outcome(Raise("logic_error"), h, l)

\* check_stream: a fault reported by the device when the stream is
\* synchronized is thrown as cudf::cuda_error.
check_stream(cudaSuccess, h, l, continued) ==
    IF cudaSuccess THEN continued ELSE Outcome(Raise("cuda_error"), h, l)

(* ------------------------------------------------- libcudf: copy_range  *)
\* Contract of the range copy: 0 <= begin <= end <= source size and the
\* destination range fits in the target.
cpp_copy_range_expects(input, target, input_begin, input_end, target_begin) ==
    /\ 0 <= input_begin
    /\ input_begin <= input_end
    /\ input_end <= Len(input)
    /\ 0 <= target_begin
    /\ target_begin + (input_end - input_begin) <= Len(target)

\* The target with [target_begin, target_begin + (input_end - input_begin))
\* overwritten by input[input_begin, input_end).
cpp_copy_range_values(input, target, input_begin, input_end, target_begin) ==
    [j \in 1..Len(target) |->
        IF target_begin <= j - 1 /\ j - 1 < target_begin + (input_end - input_begin)
        THEN input[input_begin + (j - target_begin)]
        ELSE target[j]]

_copy_range_in_place(h, input_begin, input_end, target_begin) ==
    CUDF_EXPECTS(
        cpp_copy_range_expects(h.input_column, h.target_column,
                               input_begin, input_end, target_begin),
        h, <<"copy_range_in_place">>,
        Outcome(None,
                [h EXCEPT !.target_column =
                    cpp_copy_range_values(h.input_column, h.target_column,
                                          input_begin, input_end, target_begin)],
                <<"copy_range_in_place">>))

_copy_range(h, input_begin, input_end, target_begin) ==
    CUDF_EXPECTS(
        cpp_copy_range_expects(h.input_column, h.target_column,
                               input_begin, input_end, target_begin),
        h, <<"copy_range">>,
        Outcome(NewColumn(cpp_copy_range_values(h.input_column, h.target_column,
                                                input_begin, input_end, target_begin)),
                h, <<"copy_range">>))

\* target_begin / target_end after the negative-bound normalization
Normalized(bound, size) == IF bound < 0 THEN bound + size ELSE bound

\* copy_range with the first guard written "< 1"
copy_range_strict_guard(h, input_begin, input_end, target_begin, target_end, inplace) ==
    IF abs(target_end - target_begin) < 1
    THEN Outcome(Ref("target_column"), h, <<>>)
    ELSE LET tb == Normalized(target_begin, Len(h.target_column))
             te == Normalized(target_end, Len(h.target_column))
         IN  IF tb > te
             THEN Outcome(Ref("target_column"), h, <<>>)
             ELSE IF inplace
                  THEN _copy_range_in_place(h, input_begin, input_end, tb)
                  ELSE _copy_range(h, input_begin, input_end, tb)

\* copy_range with the begin > end test made before the normalization
copy_range_early_order_test(h, input_begin, input_end, target_begin, target_end, inplace) ==
    IF abs(target_end - target_begin) <= 1
    THEN Outcome(Ref("target_column"), h, <<>>)
    ELSE IF target_begin > target_end
         THEN Outcome(Ref("target_column"), h, <<>>)
         ELSE LET tb == Normalized(target_begin, Len(h.target_column))
              IN  IF inplace
                  THEN _copy_range_in_place(h, input_begin, input_end, tb)
                  ELSE _copy_range(h, input_begin, input_end, tb)

\* copy_range that copies only when the source range fits in front of the
\* normalized target_end
copy_range_end_checked(h, input_begin, input_end, target_begin, target_end, inplace) ==
    IF abs(target_end - target_begin) <= 1
    THEN Outcome(Ref("target_column"), h, <<>>)
    ELSE LET tb == Normalized(target_begin, Len(h.target_column))
             te == Normalized(target_end, Len(h.target_column))
         IN  IF tb > te \/ tb + (input_end - input_begin) > te
             THEN Outcome(Ref("target_column"), h, <<>>)
             ELSE IF inplace
                  THEN _copy_range_in_place(h, input_begin, input_end, tb)
                  ELSE _copy_range(h, input_begin, input_end, tb)

copy_range(h, input_begin, input_end, target_begin, target_end, inplace) ==
    IF abs(target_end - target_begin) <= 1
    THEN Outcome(Ref("target_column"), h, <<>>)
    ELSE LET tb == Normalized(target_begin, Len(h.target_column))
             te == Normalized(target_end, Len(h.target_column))
         IN  IF tb > te
             THEN Outcome(Ref("target_column"), h, <<>>)
             ELSE IF inplace
                  THEN _copy_range_in_place(h, input_begin, input_end, tb)
                  ELSE _copy_range(h, input_begin, input_end, tb)

(* ------------------------------------------------------- copy_if_else   *)
\* An operand of copy_if_else is a Column or a Python scalar (None or a
\* value); a Python scalar x is carried as <<>> for None and <<x>> otherwise.
ColumnArg(data) == [kind |-> "Column", data |-> data]
ScalarArg(x) == [kind |-> "scalar", value |-> x]
isinstance_Column(x) == x.kind = "Column"

\* Scalar(value, dtype): a device scalar, valid unless the value is None.
Scalar(x) == [is_valid |-> x.value # <<>>, value |-> x.value]

\* The element a scalar broadcasts to every row.
ScalarElem(s) == IF s.is_valid THEN s.value ELSE Null

BoolElem == {Null, <<TRUE>>, <<FALSE>>}
BoolColumns(n) == [1..n -> BoolElem]

\* A scalar seen as a column of n rows
Broadcast(s, n) == [j \in 1..n |-> ScalarElem(s)]

\* libcudf copy_if_else over the rows of lhs and rhs: row j is lhs[j] when
\* the mask entry is valid and true, rhs[j] otherwise.
cpp_copy_if_else(lhs, rhs, boolean_mask) ==
    [j \in 1..Len(boolean_mask) |->
        IF boolean_mask[j] = <<TRUE>> THEN lhs[j] ELSE rhs[j]]

_copy_if_else_column_column(h, lhs, rhs, boolean_mask) ==
    LET l == <<"copy_if_else(column, column)">>
        lhs_rows == lhs.data
        rhs_rows == rhs.data
    IN  CUDF_EXPECTS(
            Len(lhs.data) = Len(rhs.data) /\ Len(boolean_mask) = Len(lhs.data),
            h, l,
            Outcome(NewColumn(cpp_copy_if_else(lhs_rows, rhs_rows, boolean_mask)), h, l))

_copy_if_else_scalar_column(h, lhs, rhs, boolean_mask) ==
    LET l == <<"copy_if_else(scalar, column)">>
        lhs_rows == Broadcast(lhs, Len(boolean_mask))
        rhs_rows == rhs.data
    IN  CUDF_EXPECTS(
            Len(boolean_mask) = Len(rhs.data),
            h, l,
            Outcome(NewColumn(cpp_copy_if_else(lhs_rows, rhs_rows, boolean_mask)), h, l))

_copy_if_else_column_scalar(h, lhs, rhs, boolean_mask) ==
    LET l == <<"copy_if_else(column, scalar)">>
        lhs_rows == lhs.data
        rhs_rows == Broadcast(rhs, Len(boolean_mask))
    IN  CUDF_EXPECTS(
            Len(boolean_mask) = Len(lhs.data),
            h, l,
            Outcome(NewColumn(cpp_copy_if_else(lhs_rows, rhs_rows, boolean_mask)), h, l))

_copy_if_else_scalar_scalar(h, lhs, rhs, boolean_mask) ==
    LET l == <<"copy_if_else(scalar, scalar)">>
        lhs_rows == Broadcast(lhs, Len(boolean_mask))
        rhs_rows == Broadcast(rhs, Len(boolean_mask))
    IN  Outcome(NewColumn(cpp_copy_if_else(lhs_rows, rhs_rows, boolean_mask)), h, l)

\* copy_if_else with the operands of the scalar/column case passed to the
\* column/scalar entry point in the wrong order
copy_if_else_swapped(h, lhs, rhs, boolean_mask) ==
    IF isinstance_Column(lhs)
    THEN IF isinstance_Column(rhs)
         THEN _copy_if_else_column_column(h, lhs, rhs, boolean_mask)
         ELSE _copy_if_else_column_scalar(h, lhs, Scalar(rhs), boolean_mask)
    ELSE IF isinstance_Column(rhs)
         THEN _copy_if_else_column_scalar(h, rhs, Scalar(lhs), boolean_mask)
         ELSE IF lhs.value = <<>> /\ rhs.value = <<>>
              THEN Outcome(None, h, <<>>)
              ELSE _copy_if_else_scalar_scalar(h, Scalar(lhs), Scalar(rhs),
                                               boolean_mask)

\* copy_if_else without the shortcut for two None operands
copy_if_else_no_shortcut(h, lhs, rhs, boolean_mask) ==
    IF isinstance_Column(lhs)
    THEN IF isinstance_Column(rhs)
         THEN _copy_if_else_column_column(h, lhs, rhs, boolean_mask)
         ELSE _copy_if_else_column_scalar(h, lhs, Scalar(rhs), boolean_mask)
    ELSE IF isinstance_Column(rhs)
         THEN _copy_if_else_scalar_column(h, Scalar(lhs), rhs, boolean_mask)
         ELSE _copy_if_else_scalar_scalar(h, Scalar(lhs), Scalar(rhs),
                                          boolean_mask)

copy_if_else(h, lhs, rhs, boolean_mask) ==
    IF isinstance_Column(lhs)
    THEN IF isinstance_Column(rhs)
         THEN _copy_if_else_column_column(h, lhs, rhs, boolean_mask)
         ELSE _copy_if_else_column_scalar(h, lhs, Scalar(rhs), boolean_mask)
    ELSE IF isinstance_Column(rhs)
         THEN _copy_if_else_scalar_column(h, Scalar(lhs), rhs, boolean_mask)
         ELSE IF lhs.value = <<>> /\ rhs.value = <<>>
              \* "return lhs": the operand itself, which is None
              THEN Outcome(None, h, <<>>)
              ELSE _copy_if_else_scalar_scalar(h, Scalar(lhs), Scalar(rhs),
                                               boolean_mask)

(* --------------------------------------------------------------- tables *)
\* A Table holds its data columns (_columns, named by _column_names) and an
\* _index that is None or holds the index columns.  All columns have the
\* same number of rows.
IndexOf(names, columns) ==
    [kind |-> "Index", _column_names |-> names, _columns |-> columns]

TableOf(index, names, columns) ==
    [kind |-> "Table", _index |-> index, _column_names |-> names,
     _columns |-> columns]

\* The index given to the tables of the model: one column of row labels.
RowLabels(n) == IndexOf(<<"idx">>, <<[j \in 1..n |-> <<j>>]>>)

Tables(names, n) ==
    {TableOf(index, names, columns) :
        index \in {None, RowLabels(n)},
        columns \in [1..Len(names) -> Columns(n)]}

\* Table.view(): the index columns, when there is an index, then the data
\* columns; Table.data_view(): the data columns only.
view(t) == IF t._index = None THEN t._columns ELSE t._index._columns \o t._columns
data_view(t) == t._columns

num_rows(columns) == IF columns = <<>> THEN 0 ELSE Len(columns[1])

\* Table._index_names
PyTuple(items) == [kind |-> "tuple", items |-> items]
PyList(items) == [kind |-> "list", items |-> items]
_index_names(t) ==
    IF t._index = None THEN None ELSE PyTuple(t._index._column_names)

\* Table.from_unique_ptr(c_result, column_names, index_names): the leading
\* len(index_names) columns become the index, the rest the data columns.
from_unique_ptr(columns, column_names, index_names) ==
    IF index_names = None
    THEN TableOf(None, column_names, columns)
    ELSE LET k == Len(index_names.items)
         IN  TableOf(IndexOf(index_names.items, SubSeq(columns, 1, k)),
                     column_names,
                     SubSeq(columns, k + 1, Len(columns)))

\* Negative indices of a gather / scatter map wrap around once.
wrap(k, size) == IF k < 0 THEN k + size ELSE k
in_bounds(k, size) == 0 <= wrap(k, size) /\ wrap(k, size) < size

(* ---------------------------------------------------------------- gather *)
\* libcudf gather: output row i is a copy of source row wrap(gather_map[i]).
cpp_gather(source, gather_map) ==
    [c \in 1..Len(source) |->
        [i \in 1..Len(gather_map) |->
            source[c][wrap(gather_map[i], num_rows(source)) + 1]]]

\* gather that gathers the data columns only and keeps the index names
gather_data_view(h, source_table, gather_map) ==
    IF ~ gather_map.is_integer_dtype
    THEN Outcome(Raise("AssertionError"), h, <<>>)
    ELSE check_stream(
            \A i \in 1..Len(gather_map.data) :
                in_bounds(gather_map.data[i], num_rows(view(source_table))),
            h, <<"gather">>,
            Outcome(from_unique_ptr(
                        cpp_gather(data_view(source_table), gather_map.data),
                        source_table._column_names,
                        _index_names(source_table)),
                    h, <<"gather">>))

gather(h, source_table, gather_map) ==
    IF ~ gather_map.is_integer_dtype
    THEN Outcome(Raise("AssertionError"), h, <<>>)
    ELSE check_stream(
            \A i \in 1..Len(gather_map.data) :
                in_bounds(gather_map.data[i], num_rows(view(source_table))),
            h, <<"gather">>,
            Outcome(from_unique_ptr(
                        cpp_gather(view(source_table), gather_map.data),
                        source_table._column_names,
                        _index_names(source_table)),
                    h, <<"gather">>))

(* --------------------------------------------------------------- scatter *)
\* For every target row, the map entry whose source row it ends up holding:
\* 0 when no entry addresses the row, otherwise one of the entries that do.
\* Entries are written by independent device threads, so which of several
\* entries with the same wrapped index is written last is not determined.
RECURSIVE ScatterWinnersUpTo(_, _, _)
ScatterWinnersUpTo(scatter_map, size, rows) ==
    IF rows = 0
    THEN {<<>>}
    ELSE LET addressed == {i \in 1..Len(scatter_map) :
                              wrap(scatter_map[i], size) = rows - 1}
             last == IF addressed = {} THEN {0} ELSE addressed
         IN  {Append(f, i) :
                 f \in ScatterWinnersUpTo(scatter_map, size, rows - 1),
                 i \in last}

ScatterWinners(scatter_map, size) == ScatterWinnersUpTo(scatter_map, size, size)

\* libcudf scatter into a copy of target: source[c][i] is the element
\* written to column c by map entry i.  With bounds_check every wrapped
\* index must lie in [0, rows); without it an out-of-range index is
\* undefined behaviour: a device fault, or the in-range writes alone.
cpp_scatter(source, source_fits, scatter_map, target, bounds_check, h, l) ==
    LET size == num_rows(target)
        all_in_bounds == \A i \in 1..Len(scatter_map) :
                             in_bounds(scatter_map[i], size)
        written == {[kind |-> "columns",
                     columns |-> [c \in 1..Len(target) |->
                                     [r \in 1..size |->
                                         IF f[r] = 0 THEN target[c][r]
                                         ELSE source[c][f[r]]]]] :
                       f \in ScatterWinners(scatter_map, size)}
    IN  IF ~ source_fits
        THEN {CUDF_EXPECTS(FALSE, h, l, Outcome(None, h, l))}
        ELSE IF bounds_check
        THEN {CUDF_EXPECTS(all_in_bounds, h, l, Outcome(c_result, h, l)) :
                 c_result \in written}
        ELSE {Outcome(c_result, h, l) : c_result \in written}
                 \cup {check_stream(all_in_bounds, h, l, Outcome(c_result, h, l)) :
                          c_result \in written}

\* out_table: the scattered data columns under the target's column names,
\* with a shallow copy of the target's index.
scatter_out_table(out, target_table) ==
    IF out.ret.kind = "raise"
    THEN out
    ELSE Outcome(TableOf(target_table._index, target_table._column_names,
                         out.ret.columns),
                 out.heap, out.launched)

\* _scatter_table that scatters source_table.view(), index columns
\* included, instead of its data columns
_scatter_table_whole_view(h, source_table, scatter_map, target_table, bounds_check) ==
    LET source == view(source_table)
    IN  {scatter_out_table(out, target_table) :
            out \in cpp_scatter(source,
                                /\ Len(source) = Len(data_view(target_table))
                                /\ num_rows(source) = Len(scatter_map.data),
                                scatter_map.data, data_view(target_table),
                                bounds_check, h, <<"scatter(table)">>)}

_scatter_table(h, source_table, scatter_map, target_table, bounds_check) ==
    LET source == data_view(source_table)
    IN  {scatter_out_table(out, target_table) :
            out \in cpp_scatter(source,
                                /\ Len(source) = Len(data_view(target_table))
                                /\ num_rows(source) = Len(scatter_map.data),
                                scatter_map.data, data_view(target_table),
                                bounds_check, h, <<"scatter(table)">>)}

\* zip(scalars, target_table._columns): one Scalar per pair, as many as the
\* shorter of the two.
zip_scalars(scalars, columns) ==
    [c \in 1..(IF Len(scalars) < Len(columns) THEN Len(scalars) ELSE Len(columns))
        |-> Scalar(ScalarArg(scalars[c]))]

_scatter_scalar(h, scalars, scatter_map, target_table, bounds_check) ==
    LET source_scalars == zip_scalars(scalars, target_table._columns)
        source == [c \in 1..Len(source_scalars) |->
                      Broadcast(source_scalars[c], Len(scatter_map.data))]
    IN  {scatter_out_table(out, target_table) :
            out \in cpp_scatter(source,
                                Len(source_scalars) = Len(data_view(target_table)),
                                scatter_map.data, data_view(target_table),
                                bounds_check, h, <<"scatter(scalars)">>)}

\* as_column(scatter_map): the entries of a Python list as a Column
as_column(x) == [kind |-> "Column", data |-> x.data]

\* scatter that does not hand bounds_check on to the libcudf call
scatter_unchecked(h, input, scatter_map, target, bounds_check) ==
    LET map == IF ~ isinstance_Column(scatter_map)
               THEN as_column(scatter_map) ELSE scatter_map
    IN  IF input.kind = "Table"
        THEN _scatter_table(h, input, map, target, FALSE)
        ELSE _scatter_scalar(h, input.items, map, target, FALSE)

scatter(h, input, scatter_map, target, bounds_check) ==
    LET map == IF ~ isinstance_Column(scatter_map)
               THEN as_column(scatter_map) ELSE scatter_map
    IN  IF input.kind = "Table"
        THEN _scatter_table(h, input, map, target, bounds_check)
        ELSE _scatter_scalar(h, input.items, map, target, bounds_check)

(* -------------------------------------------------- boolean_mask_scatter *)
\* Number of valid-and-true entries among the first r entries of a mask.
RECURSIVE count_true(_, _)
count_true(boolean_mask, r) ==
    IF r = 0 THEN 0
    ELSE count_true(boolean_mask, r - 1)
             + (IF boolean_mask[r] = <<TRUE>> THEN 1 ELSE 0)

\* libcudf boolean_mask_scatter: the k-th true-masked row of the target is
\* overwritten by input[c][k]; the other rows are the target's.
cpp_boolean_mask_scatter(input, input_fits, target, boolean_mask, h, l) ==
    CUDF_EXPECTS(
        input_fits /\ Len(boolean_mask) = num_rows(target),
        h, l,
        Outcome([kind |-> "columns",
                 columns |-> [c \in 1..Len(target) |->
                                 [r \in 1..num_rows(target) |->
                                     IF boolean_mask[r] = <<TRUE>>
                                     THEN input[c][count_true(boolean_mask, r)]
                                     ELSE target[c][r]]]],
                h, l))

\* Table.from_unique_ptr(..., index_names=target_table._index._column_names):
\* reading _column_names of a None index raises AttributeError.
from_unique_ptr_index_column_names(out, t) ==
    IF out.ret.kind = "raise"
    THEN out
    ELSE IF t._index = None
    THEN Outcome(Raise("AttributeError"), out.heap, out.launched)
    ELSE Outcome(from_unique_ptr(out.ret.columns, t._column_names,
                                 PyTuple(t._index._column_names)),
                 out.heap, out.launched)

_boolean_mask_scatter_table(h, input_table, target_table, boolean_mask) ==
    LET input == view(input_table)
    IN  from_unique_ptr_index_column_names(
            cpp_boolean_mask_scatter(
                input,
                /\ Len(input) = Len(view(target_table))
                /\ num_rows(input) = count_true(boolean_mask, Len(boolean_mask)),
                view(target_table), boolean_mask,
                h, <<"boolean_mask_scatter(table)">>),
            target_table)

_boolean_mask_scatter_scalar(h, input_scalars, target_table, boolean_mask) ==
    LET input == [c \in 1..Len(input_scalars) |->
                     Broadcast(input_scalars[c], Len(boolean_mask))]
    IN  from_unique_ptr_index_column_names(
            cpp_boolean_mask_scatter(
                input,
                Len(input_scalars) = Len(view(target_table)),
                view(target_table), boolean_mask,
                h, <<"boolean_mask_scatter(scalars)">>),
            target_table)

\* A call statement without "return": an exception propagates, a result
\* is dropped and the caller gets None.
discard_result(out) ==
    IF out.ret.kind = "raise" THEN out ELSE Outcome(None, out.heap, out.launched)

boolean_mask_scatter(h, input, target_table, boolean_mask) ==
    IF input.kind = "Table"
    THEN discard_result(
             _boolean_mask_scatter_table(h, input, target_table, boolean_mask))
    ELSE LET scalar_list == [i \in 1..Len(input.items) |->
                                Scalar(ScalarArg(input.items[i]))]
         IN  discard_result(
                 _boolean_mask_scatter_scalar(h, scalar_list, target_table,
                                              boolean_mask))

(* ----------------------------------------------------------------- split *)
\* libcudf split: the boundaries 0, p0, p0, p1, ..., pn, size are sliced
\* pairwise; every pair must satisfy 0 <= begin <= end <= size.  A view is
\* given by its offset into the storage it shares and its number of rows.
cpp_split(size, splits, h, l) ==
    LET bounds == <<0>> \o splits \o <<size>>
    IN  CUDF_EXPECTS(
            \A k \in 1..(Len(bounds) - 1) :
                0 <= bounds[k] /\ bounds[k] <= bounds[k + 1]
                    /\ bounds[k + 1] <= size,
            h, l,
            Outcome([kind |-> "views",
                     views |-> [k \in 1..(Len(bounds) - 1) |->
                                   [offset |-> bounds[k],
                                    size |-> bounds[k + 1] - bounds[k]]]],
                    h, l))

\* Column.from_column_view(view, owner): a Column over the owner's storage
from_column_view(v, owner) ==
    [kind |-> "Column", owner |-> owner, offset |-> v.offset, size |-> v.size]

\* Table.from_table_view(view, owner, column_names, index_names)
from_table_view(v, owner, column_names, index_names) ==
    [kind |-> "Table", owner |-> owner, offset |-> v.offset, size |-> v.size,
     _column_names |-> column_names, index_names |-> index_names]

column_split(h, input_column, splits) ==
    LET out == cpp_split(Len(input_column), splits, h, <<"split(column)">>)
    IN  IF out.ret.kind = "raise"
        THEN out
        ELSE Outcome(PyList([i \in 1..Len(out.ret.views) |->
                                from_column_view(out.ret.views[i], "input")]),
                     out.heap, out.launched)

table_split(h, input_table, splits) ==
    LET out == cpp_split(num_rows(view(input_table)), splits, h, <<"split(table)">>)
    IN  IF out.ret.kind = "raise"
        THEN out
        ELSE IF input_table._index = None
        \* input_table._index._column_names
        THEN Outcome(Raise("AttributeError"), out.heap, out.launched)
        ELSE Outcome(PyList([i \in 1..Len(out.ret.views) |->
                                from_table_view(out.ret.views[i], "input",
                                                input_table._column_names,
                                                input_table._index._column_names)]),
                     out.heap, out.launched)

(* ----------------------------------------------------------------- slice *)
\* libcudf slice: indices holds begin/end pairs b0, e0, b1, e1, ...; the
\* number of indices must be even and every pair must satisfy
\* 0 <= begin <= end <= size.  View k covers [b_k, e_k) of the storage.
cpp_slice(size, indices, h, l) ==
    CUDF_EXPECTS(
        /\ Len(indices) % 2 = 0
        /\ \A k \in 1..(Len(indices) \div 2) :
               0 <= indices[2 * k - 1] /\ indices[2 * k - 1] <= indices[2 * k]
                   /\ indices[2 * k] <= size,
        h, l,
        Outcome([kind |-> "views",
                 views |-> [k \in 1..(Len(indices) \div 2) |->
                               [offset |-> indices[2 * k - 1],
                                size |-> indices[2 * k] - indices[2 * k - 1]]]],
                h, l))

\* column_slice whose results own a copy of the input's rows, taken when
\* the slice is made
column_slice_of_copy(h, input_column, indices) ==
    LET out == cpp_slice(Len(input_column), indices, h, <<"slice(column)">>)
    IN  IF out.ret.kind = "raise"
        THEN out
        ELSE Outcome(PyList([i \in 1..Len(out.ret.views) |->
                                from_column_view(out.ret.views[i], "copy")]),
                     [x \in DOMAIN out.heap \cup {"copy"} |->
                         IF x = "copy" THEN ColumnArg(input_column)
                         ELSE out.heap[x]],
                     out.launched)

column_slice(h, input_column, indices) ==
    LET out == cpp_slice(Len(input_column), indices, h, <<"slice(column)">>)
    IN  IF out.ret.kind = "raise"
        THEN out
        ELSE Outcome(PyList([i \in 1..Len(out.ret.views) |->
                                from_column_view(out.ret.views[i], "input")]),
                     out.heap, out.launched)

\* The rows a Column shows: rows offset + 1 .. offset + size of the storage
\* of its owner (Column.view() / Column.mutable_view()).
column_rows(h, col) ==
    [j \in 1..col.size |-> h[col.owner].data[col.offset + j]]

\* The owner's storage after rows were written through the mutable view of
\* col: the window of col is replaced, the rest of the storage is kept.
store_rows(h, col, rows) ==
    [h EXCEPT ![col.owner].data =
        [j \in 1..Len(h[col.owner].data) |->
            IF col.offset < j /\ j <= col.offset + col.size
            THEN rows[j - col.offset]
            ELSE h[col.owner].data[j]]]

\* copy_range(input_column, target, ..., inplace=True) where target is a
\* Column over shared storage: the copy reads and writes the rows of target
\* through its mutable view.
copy_range_in_place_on(h, target, input_column, input_begin, input_end, target_begin, target_end) ==
    LET out == copy_range([input_column |-> input_column,
                           target_column |-> column_rows(h, target)],
                          input_begin, input_end, target_begin, target_end, TRUE)
    IN  Outcome(out.ret, store_rows(h, target, out.heap.target_column),
                out.launched)

(* ----------------------------------------------------------------- shift *)
\* A fill_value that is already a Scalar instance
ScalarInstance(is_valid, value) ==
    [kind |-> "Scalar", is_valid |-> is_valid, value |-> value]
isinstance_Scalar(x) == x.kind = "Scalar"

\* libcudf shift: a new column of the size of the input; element i is
\* input[i - offset] when i - offset is in range and the fill scalar
\* otherwise.  Elements are numbered from 0, sequences from 1.
cpp_shift(input, offset, fill) ==
    [j \in 1..Len(input) |->
        IF 1 <= j - offset /\ j - offset <= Len(input)
        THEN input[j - offset]
        ELSE ScalarElem(fill)]

\* shift handing -offset to libcudf
shift_negated_offset(h, offset, fill_value) ==
    LET fill == IF isinstance_Scalar(fill_value)
                THEN fill_value
                ELSE Scalar(fill_value)
    IN  Outcome(NewColumn(cpp_shift(h.input, -offset, fill)), h, <<"shift">>)

shift(h, offset, fill_value) ==
    LET fill == IF isinstance_Scalar(fill_value)
                THEN fill_value
                ELSE Scalar(fill_value)
    IN  Outcome(NewColumn(cpp_shift(h.input, offset, fill)), h, <<"shift">>)

(* ------------------------------------------------ specification: Spec   *)
\* The state before a call: the arguments as passed, the argument objects
\* holding the storage they were passed with, nothing returned or launched.
Ready(a, h) ==
    /\ pc = "ready"
    /\ args = a
    /\ heap = h
    /\ ret = NotCalled
    /\ launched = <<>>

Init ==
    \E n \in 0..MaxRows :
    \E target \in Columns(n), input \in ColumnsUpTo(MaxInputRows) :
    \E ib \in 0..MaxInputRows, ie \in 0..MaxInputRows :
    \E tb \in (-(n + 1))..(n + 1), te \in (-(n + 1))..(n + 1) :
    \E inplace \in BOOLEAN :
        Ready([input_column |-> input, target_column |-> target,
               input_begin |-> ib, input_end |-> ie,
               target_begin |-> tb, target_end |-> te, inplace |-> inplace],
              [input_column |-> input, target_column |-> target])

CallCopyRange ==
    LET out == copy_range(heap, args.input_begin, args.input_end,
                          args.target_begin, args.target_end, args.inplace)
    IN  /\ pc = "ready"
        /\ pc' = "copy_range"
        /\ ret' = out.ret
        /\ heap' = out.heap
        /\ launched' = out.launched
        /\ UNCHANGED args

Next == CallCopyRange

Spec == Init /\ [][Next]_vars

(* ------------------------------------------------------ copy_range claims *)
\* The call was a no-op: it returned the target object itself, invoked no
\* libcudf copy, and every element (value and validity) of the target and
\* of the input is what it was when the call was made.
CopyRangeNoOp ==
    /\ ret = Ref("target_column")
    /\ launched = <<>>
    /\ heap.target_column = args.target_column
    /\ heap.input_column = args.input_column

EffectiveBegin == Normalized(args.target_begin, Len(args.target_column))
EffectiveEnd == Normalized(args.target_end, Len(args.target_column))

\* C1: whenever abs(target_end - target_begin) <= 1 on the arguments as
\* passed, for inplace true and false, copy_range returns the target column
\* itself, performs no copy and leaves every element of target unchanged.
C1_RawSpanReturnsTarget ==
    (Called("copy_range") /\ abs(args.target_end - args.target_begin) <= 1)
        => CopyRangeNoOp

\* A call with a raw span of exactly one element and a valid input range,
\* in place, has returned.
C1_Witness ==
    /\ Called("copy_range")
    /\ args.target_end - args.target_begin = 1
    /\ args.target_begin >= 0
    /\ args.target_end <= Len(args.target_column)
    /\ args.input_begin = 0 /\ args.input_end = 1
    /\ Len(args.input_column) = 1
    /\ args.input_column[1] # args.target_column[args.target_begin + 1]
    /\ args.inplace

\* C2: whenever the destination span after normalization of the negative
\* bounds has length <= 1, copy_range is a no-op returning target unchanged.
C2_EffectiveSpanNoOp ==
    (Called("copy_range") /\ EffectiveEnd - EffectiveBegin <= 1)
        => CopyRangeNoOp

\* C3: whenever target_begin > target_end after normalization, copy_range
\* raises nothing, performs no copy and returns target unchanged.
C3_ReversedSpanReturnsTarget ==
    (Called("copy_range") /\ EffectiveBegin > EffectiveEnd)
        => (ret.kind # "raise" /\ CopyRangeNoOp)

\* A call that passed the first guard (raw bounds more than one apart, in
\* ascending order) and whose bounds are reversed only after normalization.
C3_Witness ==
    /\ Called("copy_range")
    /\ args.target_end - args.target_begin > 1
    /\ EffectiveBegin > EffectiveEnd
    /\ args.input_begin = 0 /\ args.input_end = 1
    /\ Len(args.input_column) = 1

(* --------------------------------------- specification: SpecCopyIfElse  *)
Operands == {ColumnArg(c) : c \in ColumnsUpTo(MaxRows)}
                \cup {ScalarArg(x) : x \in Elem}

InitCopyIfElse ==
    \E n \in 0..MaxRows :
    \E mask \in BoolColumns(n), lhs \in Operands, rhs \in Operands :
        Ready([lhs |-> lhs, rhs |-> rhs, boolean_mask |-> mask],
              [lhs |-> lhs, rhs |-> rhs, boolean_mask |-> mask])

CallCopyIfElse ==
    LET out == copy_if_else(heap, args.lhs, args.rhs, args.boolean_mask)
    IN  /\ pc = "ready"
        /\ pc' = "copy_if_else"
        /\ ret' = out.ret
        /\ heap' = out.heap
        /\ launched' = out.launched
        /\ UNCHANGED args

NextCopyIfElse == CallCopyIfElse

SpecCopyIfElse == InitCopyIfElse /\ [][NextCopyIfElse]_vars

(* ---------------------------------------------------- copy_if_else claims *)
\* Row j (1-based) of an operand as the claim reads it: the row of a
\* column, the broadcast value of a scalar (None broadcasts null).
OperandRow(x, j) == IF x.kind = "Column" THEN x.data[j] ELSE x.value

\* The operand columns have as many rows as the mask (the contract of
\* copy_if_else).
OperandsFitMask ==
    /\ args.lhs.kind = "Column" => Len(args.lhs.data) = Len(args.boolean_mask)
    /\ args.rhs.kind = "Column" => Len(args.rhs.data) = Len(args.boolean_mask)

BothNoneScalars ==
    /\ args.lhs.kind = "scalar" /\ args.lhs.value = <<>>
    /\ args.rhs.kind = "scalar" /\ args.rhs.value = <<>>

\* The result is a new column with one row per mask entry, row i being
\* lhs[i] where the mask is valid and true and rhs[i] elsewhere.
SelectedRowWise ==
    /\ ret.kind = "Column"
    /\ Len(ret.data) = Len(args.boolean_mask)
    /\ \A j \in 1..Len(args.boolean_mask) :
           ret.data[j] = IF args.boolean_mask[j] = <<TRUE>>
                         THEN OperandRow(args.lhs, j)
                         ELSE OperandRow(args.rhs, j)

\* C5 as stated: for every operand combination, scalar/scalar included,
\* copy_if_else returns the row-wise selection with len(boolean_mask) rows.
C5_Original ==
    (Called("copy_if_else") /\ OperandsFitMask) => SelectedRowWise

\* C5 amended: the row-wise selection is returned for every operand
\* combination except two None scalars, for which the result is None.
C5_SelectsRowWise ==
    (Called("copy_if_else") /\ OperandsFitMask)
        => IF BothNoneScalars THEN ret = None ELSE SelectedRowWise

\* A scalar lhs and a column rhs that differ on a row the mask selects from
\* lhs, next to a row with a null mask entry.
C5_Witness ==
    /\ Called("copy_if_else")
    /\ args.lhs.kind = "scalar" /\ args.lhs.value # <<>>
    /\ args.rhs.kind = "Column"
    /\ Len(args.boolean_mask) = 2 /\ Len(args.rhs.data) = 2
    /\ args.boolean_mask[1] = <<TRUE>> /\ args.boolean_mask[2] = Null
    /\ args.rhs.data[1] # args.lhs.value
    /\ args.rhs.data[2] # args.lhs.value
    /\ ret.kind = "Column"

\* C6: with two None scalar operands copy_if_else returns the None operand
\* itself and launches no selection, whatever the boolean mask holds.
C6_BothNullReturnsOperand ==
    (Called("copy_if_else") /\ BothNoneScalars)
        => (ret = None /\ launched = <<>> /\ heap.boolean_mask = args.boolean_mask)

\* Two None operands with a mask that has a true, a false and a null entry.
C6_Witness ==
    /\ Called("copy_if_else")
    /\ BothNoneScalars
    /\ Len(args.boolean_mask) = 3
    /\ {args.boolean_mask[j] : j \in 1..3} = BoolElem

(* ------------------------------------------- specification: SpecGather  *)
ColumnNameLists == {<<"a">>, <<"a", "b">>}

\* Integer maps of n entries over a table of size rows, reaching one past
\* either end of the valid index range.
IndexMaps(n, size) == [1..n -> (-(size + 1))..size]

MapColumn(integer, data) == [is_integer_dtype |-> integer, data |-> data]

InitGather ==
    \E n \in 0..MaxTableRows, m \in 0..MaxMapLen, names \in ColumnNameLists :
    \E source \in Tables(names, n), map \in IndexMaps(m, n), integer \in BOOLEAN :
        Ready([source_table |-> source, gather_map |-> MapColumn(integer, map)],
              [source_table |-> source, gather_map |-> MapColumn(integer, map)])

CallGather ==
    LET out == gather(heap, args.source_table, args.gather_map)
    IN  /\ pc = "ready"
        /\ pc' = "gather"
        /\ ret' = out.ret
        /\ heap' = out.heap
        /\ launched' = out.launched
        /\ UNCHANGED args

NextGather == CallGather

SpecGather == InitGather /\ [][NextGather]_vars

(* ---------------------------------------------------------- gather claim *)
\* Row j (1-based) of a table: its index entries, if any, then its data.
TableRow(t, j) == [c \in 1..Len(view(t)) |-> view(t)[c][j]]
TableRows(t) == num_rows(view(t))

GatherMapInRange ==
    /\ args.gather_map.is_integer_dtype
    /\ \A i \in 1..Len(args.gather_map.data) :
           LET k == args.gather_map.data[i]
           IN  /\ k >= 0 => k < TableRows(args.source_table)
               /\ k < 0 => TableRows(args.source_table) + k >= 0

\* C7: gather returns a table of len(gather_map) rows with the columns of
\* the source in the same order, output row i being source row g(i)
\* (g(i) = gather_map[i], or size + gather_map[i] when negative), nulls
\* included, and leaves the source table unmodified.
C7_GatherRows ==
    (Called("gather") /\ GatherMapInRange) =>
        /\ ret.kind = "Table"
        /\ ret._column_names = args.source_table._column_names
        /\ (ret._index = None) = (args.source_table._index = None)
        /\ Len(ret._columns) = Len(args.source_table._columns)
        /\ TableRows(ret) = Len(args.gather_map.data)
        /\ \A i \in 1..Len(args.gather_map.data) :
               LET k == args.gather_map.data[i]
                   g == IF k >= 0 THEN k ELSE TableRows(args.source_table) + k
               IN  TableRow(ret, i) = TableRow(args.source_table, g + 1)
        /\ heap.source_table = args.source_table

\* A two-column indexed table with a null in its last row, gathered in
\* reverse order through a negative and a non-negative index.
C7_Witness ==
    /\ Called("gather")
    /\ args.gather_map.is_integer_dtype
    /\ args.gather_map.data = <<-1, 0>>
    /\ args.source_table._index # None
    /\ Len(args.source_table._columns) = 2
    /\ TableRows(args.source_table) = 2
    /\ args.source_table._columns[1][2] = Null
    /\ args.source_table._columns[1][1] # Null
    /\ args.source_table._columns[2][1] # args.source_table._columns[1][1]
    /\ ret.kind = "Table"

(* ------------------------------------------ specification: SpecScatter  *)
ScatterMapArg(kind, data) == [kind |-> kind, data |-> data]

\* The elements of scatter targets and of scatter sources: a valid source
\* element differs from every valid target element.
TargetElem == {Null, <<1>>}
SourceElem == {Null, <<2>>}

ScatterTargets(n) ==
    {TableOf(index, <<"a">>, <<c>>) :
        index \in {None, RowLabels(n)}, c \in [1..n -> TargetElem]}

\* Sources of a scatter of m entries into a one-column target: a table of m
\* rows (indexed like the target), or a list of up to two Python scalars.
ScatterInputs(m, index) ==
    {TableOf(IF index = None THEN None ELSE RowLabels(m), <<"a">>, <<c>>) :
        c \in [1..m -> SourceElem]}
    \cup {PyList(items) : items \in UNION {[1..k -> SourceElem] : k \in 0..2}}

InitScatter ==
    \E n \in 0..MaxTableRows, m \in 0..MaxMapLen :
    \E target \in ScatterTargets(n), map \in IndexMaps(m, n) :
    \E input \in ScatterInputs(m, target._index) :
    \E kind \in {"Column", "list"}, bounds_check \in BOOLEAN :
        Ready([input |-> input, scatter_map |-> ScatterMapArg(kind, map),
               target |-> target, bounds_check |-> bounds_check],
              [input |-> input, scatter_map |-> ScatterMapArg(kind, map),
               target |-> target])

CallScatter ==
    \E out \in scatter(heap, args.input, args.scatter_map, args.target,
                       args.bounds_check) :
        /\ pc = "ready"
        /\ pc' = "scatter"
        /\ ret' = out.ret
        /\ heap' = out.heap
        /\ launched' = out.launched
        /\ UNCHANGED args

NextScatter == CallScatter

SpecScatter == InitScatter /\ [][NextScatter]_vars

(* -------------------------------------------------------- scatter claims *)
DataRow(t, j) == [c \in 1..Len(t._columns) |-> t._columns[c][j]]
DataRows(t) == num_rows(t._columns)

\* w(k): a negative index k addresses row size + k
WrappedIndex(i) ==
    LET k == args.scatter_map.data[i]
    IN  IF k < 0 THEN DataRows(args.target) + k ELSE k

ScatterIndicesInRange ==
    \A i \in 1..Len(args.scatter_map.data) :
        0 <= WrappedIndex(i) /\ WrappedIndex(i) < DataRows(args.target)

\* The result is a new table shaped like the target, the target and the
\* source are unmodified, and rows no map entry addresses are the target's.
ScatterFrame ==
    /\ ret.kind = "Table"
    /\ ret._column_names = args.target._column_names
    /\ ret._index = args.target._index
    /\ Len(ret._columns) = Len(args.target._columns)
    /\ DataRows(ret) = DataRows(args.target)
    /\ \A r \in 1..DataRows(args.target) :
           (\A i \in 1..Len(args.scatter_map.data) : WrappedIndex(i) # r - 1)
               => DataRow(ret, r) = DataRow(args.target, r)
    /\ heap.target = args.target
    /\ heap.input = args.input

\* C8 as stated: with every wrapped index in range, row w(scatter_map[i])
\* of the result equals source row i for every i, every other row equals
\* the target row, and the target is not modified.
C8_Original ==
    (Called("scatter") /\ args.input.kind = "Table" /\ ScatterIndicesInRange) =>
        /\ ScatterFrame
        /\ \A i \in 1..Len(args.scatter_map.data) :
               DataRow(ret, WrappedIndex(i) + 1) = DataRow(args.input, i)

\* C8 amended: row w(scatter_map[i]) equals source row i for every i whose
\* wrapped index is addressed by no other entry of the map.
C8_ScatterRows ==
    (Called("scatter") /\ args.input.kind = "Table" /\ ScatterIndicesInRange) =>
        /\ ScatterFrame
        /\ \A i \in 1..Len(args.scatter_map.data) :
               (\A j \in 1..Len(args.scatter_map.data) :
                    j # i => WrappedIndex(j) # WrappedIndex(i))
                   => DataRow(ret, WrappedIndex(i) + 1) = DataRow(args.input, i)

\* A source row scattered through a negative index, given as a Python
\* list, into the last row of a two-row indexed target whose first row is
\* not addressed.
C8_Witness ==
    /\ Called("scatter")
    /\ args.input.kind = "Table"
    /\ args.scatter_map = ScatterMapArg("list", <<-1>>)
    /\ DataRows(args.target) = 2
    /\ args.target._index # None
    /\ DataRow(args.input, 1) # DataRow(args.target, 2)
    /\ DataRow(args.target, 1) # DataRow(args.target, 2)
    /\ ret.kind = "Table"

\* C9: with bounds_check an index that is out of [0, rows) after the
\* wraparound makes scatter raise, for a table and for a scalar source; no
\* table is returned and target and source are unchanged.
C9_BoundsCheckRaises ==
    (Called("scatter") /\ args.bounds_check /\ ~ ScatterIndicesInRange) =>
        /\ ret.kind = "raise"
        /\ heap.target = args.target
        /\ heap.input = args.input

\* A checked scatter of scalars with one index in range and one below
\* -rows has raised.
C9_Witness ==
    /\ Called("scatter")
    /\ args.bounds_check
    /\ args.input.kind = "list" /\ Len(args.input.items) = 1
    /\ DataRows(args.target) = 2
    /\ args.scatter_map.data = <<0, -3>>
    /\ ret.kind = "raise"

(* ------------------------------- specification: SpecBooleanMaskScatter  *)
\* Inputs of a boolean_mask_scatter: a one-column table of k rows, with or
\* without an index, or a list of up to two Python scalars.
MaskScatterInputs ==
    UNION {{TableOf(index, <<"a">>, <<c>>) :
               index \in {None, RowLabels(k)}, c \in [1..k -> SourceElem]} :
           k \in 0..MaxRows}
    \cup {PyList(items) : items \in UNION {[1..k -> SourceElem] : k \in 0..2}}

InitBooleanMaskScatter ==
    \E n \in 0..MaxRows, without_index \in BOOLEAN :
    \E c \in [1..n -> TargetElem], mask \in BoolColumns(n) :
    \E input \in MaskScatterInputs :
        LET target == TableOf(IF without_index THEN None ELSE RowLabels(n),
                              <<"a">>, <<c>>)
        IN  Ready([input |-> input, target_table |-> target,
                   boolean_mask |-> mask],
                  [input |-> input, target_table |-> target,
                   boolean_mask |-> mask])

CallBooleanMaskScatter ==
    LET out == boolean_mask_scatter(heap, args.input, args.target_table,
                                    args.boolean_mask)
    IN  /\ pc = "ready"
        /\ pc' = "boolean_mask_scatter"
        /\ ret' = out.ret
        /\ heap' = out.heap
        /\ launched' = out.launched
        /\ UNCHANGED args

NextBooleanMaskScatter == CallBooleanMaskScatter

SpecBooleanMaskScatter == InitBooleanMaskScatter /\ [][NextBooleanMaskScatter]_vars

(* ------------------------------------------- boolean_mask_scatter claim *)
MaskTrueCount == count_true(args.boolean_mask, Len(args.boolean_mask))

\* The arguments meet the contract: a table input shaped like the target
\* with one row per true mask entry, or one scalar per column.
MaskScatterFits ==
    IF args.input.kind = "Table"
    THEN /\ TableRows(args.input) = MaskTrueCount
         /\ (args.input._index = None) = (args.target_table._index = None)
    ELSE Len(args.input.items) = Len(view(args.target_table))

\* Row k of a table input, or the scalars broadcast to any row
MaskScatterInputRow(k) ==
    IF args.input.kind = "Table"
    THEN TableRow(args.input, k)
    ELSE args.input.items

\* C4: boolean_mask_scatter returns a new table shaped like target_table
\* whose k-th true-masked row is row k of the input (or the broadcast
\* scalars) and whose false-masked rows are the target's rows.
C4_MaskScatterRows ==
    (Called("boolean_mask_scatter") /\ MaskScatterFits) =>
        /\ ret.kind = "Table"
        /\ ret._column_names = args.target_table._column_names
        /\ TableRows(ret) = TableRows(args.target_table)
        /\ \A r \in 1..Len(args.boolean_mask) :
               TableRow(ret, r) =
                   IF args.boolean_mask[r] = <<TRUE>>
                   THEN MaskScatterInputRow(count_true(args.boolean_mask, r))
                   ELSE TableRow(args.target_table, r)

(* -------------------------------------------- specification: SpecSplit  *)
SplitPoints(size) ==
    UNION {[1..k -> (-1)..(size + 1)] : k \in 1..MaxSplits}

SplitInputs ==
    UNION {{ColumnArg(c) : c \in Columns(n)} : n \in 0..MaxRows}
    \cup UNION {Tables(names, n) :
                    names \in ColumnNameLists, n \in 0..MaxTableRows}

InputRows(x) == IF x.kind = "Column" THEN Len(x.data) ELSE TableRows(x)

InitSplit ==
    \E input \in SplitInputs :
    \E splits \in SplitPoints(InputRows(input)) :
        Ready([input |-> input, splits |-> splits], [input |-> input])

CallColumnSplit ==
    LET out == column_split(heap, heap.input.data, args.splits)
    IN  /\ pc = "ready"
        /\ args.input.kind = "Column"
        /\ pc' = "split"
        /\ ret' = out.ret
        /\ heap' = out.heap
        /\ launched' = out.launched
        /\ UNCHANGED args

CallTableSplit ==
    LET out == table_split(heap, heap.input, args.splits)
    IN  /\ pc = "ready"
        /\ args.input.kind = "Table"
        /\ pc' = "split"
        /\ ret' = out.ret
        /\ heap' = out.heap
        /\ launched' = out.launched
        /\ UNCHANGED args

NextSplit == CallColumnSplit \/ CallTableSplit

SpecSplit == InitSplit /\ [][NextSplit]_vars

(* ------------------------------------------------------------ split claim *)
\* The split points ascend strictly inside (0, X.size).
SplitsAscendInside ==
    /\ \A k \in 1..Len(args.splits) :
           0 < args.splits[k] /\ args.splits[k] < InputRows(args.input)
    /\ \A k \in 1..(Len(args.splits) - 1) : args.splits[k] < args.splits[k + 1]

\* Row j of X, read from the storage the views share
StoredRow(j) ==
    IF heap.input.kind = "Column" THEN heap.input.data[j] ELSE TableRow(heap.input, j)

\* The rows a view shows: rows offset + 1 .. offset + size of its owner
ViewRows(v) == [j \in 1..v.size |-> StoredRow(v.offset + j)]

RECURSIVE ConcatViews(_, _)
ConcatViews(views, k) ==
    IF k = 0 THEN <<>> ELSE ConcatViews(views, k - 1) \o ViewRows(views[k])

RECURSIVE SumSizes(_, _)
SumSizes(views, k) ==
    IF k = 0 THEN 0 ELSE SumSizes(views, k - 1) + views[k].size

\* The result is the n+1 contiguous views [0,p0), [p0,p1), ..., [pn,size)
\* over X's own storage, which is unchanged.
SplitIsPartition ==
    /\ ret.kind = "list"
    /\ Len(ret.items) = Len(args.splits) + 1
    /\ \A k \in 1..Len(ret.items) :
           /\ ret.items[k].owner = "input"
           /\ ret.items[k].offset = (IF k = 1 THEN 0 ELSE args.splits[k - 1])
           /\ ret.items[k].offset + ret.items[k].size =
                  (IF k = Len(ret.items) THEN InputRows(args.input)
                   ELSE args.splits[k])
    /\ SumSizes(ret.items, Len(ret.items)) = InputRows(args.input)
    /\ ConcatViews(ret.items, Len(ret.items)) =
           [j \in 1..InputRows(args.input) |-> StoredRow(j)]
    /\ heap.input = args.input

\* C10: for every column or table X and split points ascending inside
\* (0, X.size), split returns n+1 contiguous disjoint views covering X in
\* order, whose sizes sum to X.size and whose concatenation is X; X is
\* neither mutated nor reallocated.
C10_SplitPartitions ==
    (Called("split") /\ SplitsAscendInside) => SplitIsPartition

\* What split does guarantee: the partition, for columns and for tables
\* that have an index.
SplitOfColumnOrIndexedTable ==
    (Called("split") /\ SplitsAscendInside
        /\ (args.input.kind = "Table" => args.input._index # None))
        => SplitIsPartition

(* -------------------------------------------- specification: SpecViews  *)
\* A column is sliced or split once; afterwards in-place copy_range calls
\* are made, in any number and order, on the column and on the views.
SliceIndices(size) ==
    UNION {[1..k -> 0..size] : k \in 1..(2 * MaxSlices)}

ViewSplits(size) ==
    UNION {[1..k -> 0..size] : k \in 1..MaxSplits}

InitViews ==
    \E n \in 0..MaxViewRows :
    \E parent \in [1..n -> TargetElem] :
        \/ \E indices \in SliceIndices(n) :
               Ready([input |-> ColumnArg(parent), indices |-> indices],
                     [input |-> ColumnArg(parent)])
        \/ \E splits \in ViewSplits(n) :
               Ready([input |-> ColumnArg(parent), splits |-> splits],
                     [input |-> ColumnArg(parent)])

CallColumnSlice ==
    LET out == column_slice(heap, heap.input.data, args.indices)
    IN  /\ pc = "ready"
        /\ "indices" \in DOMAIN args
        /\ pc' = "column_slice"
        /\ ret' = out.ret
        /\ heap' = out.heap
        /\ launched' = out.launched
        /\ UNCHANGED args

CallSplitForViews ==
    /\ "splits" \in DOMAIN args
    /\ CallColumnSplit

\* The input of the slice / split as a Column over its own storage
ParentColumn ==
    from_column_view([offset |-> 0, size |-> Len(heap.input.data)], "input")

\* The views the caller holds after the slice / split
HeldViews ==
    IF ret.kind = "list" THEN {ret.items[k] : k \in 1..Len(ret.items)} ELSE {}

\* copy_range(patch, target, 0, 1, target_begin, target_end, inplace=True)
\* on the parent or on one of its views; the caller keeps the list of views
\* and discards what the call returns.
CallCopyRangeInPlace ==
    /\ pc \in {"column_slice", "split"}
    /\ \E target \in {ParentColumn} \cup HeldViews :
       \E patch \in [1..1 -> SourceElem] :
       \E target_begin \in (-1)..target.size, target_end \in {0, target.size} :
           LET out == copy_range_in_place_on(heap, target, patch, 0, 1,
                                             target_begin, target_end)
           IN  /\ heap' = out.heap
               /\ launched' = out.launched
    /\ UNCHANGED <<pc, args, ret>>

NextViews == CallColumnSlice \/ CallSplitForViews \/ CallCopyRangeInPlace

SpecViews == InitViews /\ [][NextViews]_vars

(* ------------------------------------------------------------ view claim *)
\* The range [ViewBegin(k), ViewEnd(k)) that view k was asked to cover
ViewBounds ==
    IF "indices" \in DOMAIN args
    THEN args.indices
    ELSE [k \in 1..(2 * (Len(args.splits) + 1)) |->
             IF k = 1 THEN 0
             ELSE IF k = 2 * (Len(args.splits) + 1) THEN Len(args.input.data)
             ELSE args.splits[k \div 2]]

ViewBegin(k) == ViewBounds[2 * k - 1]
ViewEnd(k) == ViewBounds[2 * k]

\* Every view over [b, e) has e - b rows and reads at position j what the
\* parent holds now at position b + j.
ViewsReadParent ==
    (pc \in {"column_slice", "split"} /\ ret.kind = "list") =>
        /\ 2 * Len(ret.items) = Len(ViewBounds)
        /\ \A k \in 1..Len(ret.items) :
               /\ ret.items[k].size = ViewEnd(k) - ViewBegin(k)
               /\ \A j \in 0..(ret.items[k].size - 1) :
                      column_rows(heap, ret.items[k])[j + 1] =
                          heap.input.data[ViewBegin(k) + j + 1]

\* A slice or split step leaves every element of its input as it was.
SliceOrSplitKeepsParent ==
    (pc = "ready" /\ pc' # "ready") => heap'.input = heap.input

\* C11: views returned by slice or split share storage with their input:
\* after any sequence of in-place copy_range calls on the parent or on
\* another view, every view over [b, e) reads at each position j the
\* current value and validity of the parent at b + j; slice and split
\* themselves never change an element of the parent.
C11_ViewsShareStorage ==
    []ViewsReadParent /\ [][SliceOrSplitKeepsParent]_vars

\* Two views are held, an in-place copy_range has changed the parent's
\* storage, and a view shows rows other than those it showed when made.
C11_Witness ==
    /\ pc \in {"column_slice", "split"}
    /\ ret.kind = "list"
    /\ Len(ret.items) >= 2
    /\ launched = <<"copy_range_in_place">>
    /\ heap.input # args.input
    /\ \E k \in 1..Len(ret.items) :
           /\ ret.items[k].size >= 1
           /\ column_rows(heap, ret.items[k]) #
                  [j \in 1..ret.items[k].size |->
                      args.input.data[ret.items[k].offset + j]]

(* -------------------------------------------- specification: SpecShift  *)
\* fill_value omitted or None, a Python value, or a Scalar instance (valid,
\* or null with or without a stale value)
FillValues ==
    {ScalarArg(x) : x \in Elem}
    \cup {ScalarInstance(TRUE, <<v>>) : v \in Values}
    \cup {ScalarInstance(FALSE, x) : x \in Elem}

InitShift ==
    \E n \in 0..MaxRows :
    \E input \in Columns(n), offset \in (-(n + 1))..(n + 1) :
    \E fill_value \in FillValues :
        Ready([input |-> input, offset |-> offset, fill_value |-> fill_value],
              [input |-> input])

CallShift ==
    LET out == shift(heap, args.offset, args.fill_value)
    IN  /\ pc = "ready"
        /\ pc' = "shift"
        /\ ret' = out.ret
        /\ heap' = out.heap
        /\ launched' = out.launched
        /\ UNCHANGED args

NextShift == CallShift

SpecShift == InitShift /\ [][NextShift]_vars

(* ------------------------------------------------------------ shift claim *)
\* The element a position takes when nothing is shifted into it: the value
\* of fill_value, null when fill_value is null or omitted
FillElement ==
    IF args.fill_value.kind = "Scalar"
    THEN IF args.fill_value.is_valid THEN args.fill_value.value ELSE Null
    ELSE args.fill_value.value

\* C12: shift(input, offset, fill_value) returns a column of the size of
\* input whose element i is input[i - offset] (value and validity) when
\* 0 <= i - offset < input.size and fill_value otherwise (null when
\* fill_value is null or omitted), for positive and negative offsets;
\* shift(X, 0, fill) = X for every fill, and input is not modified.
C12_ShiftElements ==
    Called("shift") =>
        /\ ret.kind = "Column"
        /\ Len(ret.data) = Len(args.input)
        /\ \A i \in 0..(Len(args.input) - 1) :
               ret.data[i + 1] =
                   IF 0 <= i - args.offset /\ i - args.offset < Len(args.input)
                   THEN args.input[i - args.offset + 1]
                   ELSE FillElement
        /\ (args.offset = 0 => ret.data = args.input)
        /\ heap.input = args.input

\* A shift by a positive offset smaller than the size has returned: the
\* result holds both filled positions and shifted elements, the fill is a
\* value, and the shifted elements include a null and a value that differ
\* from the fill.
C12_Witness ==
    /\ Called("shift")
    /\ args.offset > 0
    /\ args.offset < Len(args.input) - 1
    /\ FillElement = <<1>>
    /\ args.input[1] = Null
    /\ args.input[2] = <<2>>
    /\ ret.kind = "Column"
    /\ ret.data[1] = <<1>>
    /\ ret.data[Len(args.input)] = <<2>>

(* ----------------------------------------------- copy_range frame claim  *)
\* Both guards of copy_range let the call through.
PassesGuards ==
    /\ abs(args.target_end - args.target_begin) > 1
    /\ EffectiveBegin <= EffectiveEnd

\* The contract of the range copy: the source range lies inside the input
\* and the destination range, from the normalized target_begin, inside
\* the target.
RangeContract ==
    /\ 0 <= args.input_begin
    /\ args.input_begin <= args.input_end
    /\ args.input_end <= Len(args.input_column)
    /\ 0 <= EffectiveBegin
    /\ EffectiveBegin + (args.input_end - args.input_begin)
           <= Len(args.target_column)

\* col is the target as passed with exactly the positions
\* [target_begin, target_begin + (input_end - input_begin)) replaced by
\* input[input_begin .. input_end); target_end plays no part.
IsTargetWithRange(col) ==
    /\ Len(col) = Len(args.target_column)
    /\ \A i \in 0..(Len(col) - 1) :
           col[i + 1] =
               IF EffectiveBegin <= i
                      /\ i < EffectiveBegin + (args.input_end - args.input_begin)
               THEN args.input_column[args.input_begin + (i - EffectiveBegin) + 1]
               ELSE args.target_column[i + 1]

\* Out of place the result is a new column and the target is as passed;
\* in place the target's own storage holds the copy.
RangeCopied ==
    /\ ret.kind # "raise"
    /\ IF args.inplace
       THEN IsTargetWithRange(heap.target_column)
       ELSE /\ ret.kind = "Column"
            /\ IsTargetWithRange(ret.data)
            /\ heap.target_column = args.target_column
    /\ heap.input_column = args.input_column

====
